---- MODULE Spec2Model ----
(***************************************************************************)
(* Model of stability_function.py: the Pade and Taylor approximant         *)
(* constructors and the stability-region renderer.                         *)
(*                                                                         *)
(* One behaviour is one call of one of the three functions.  Init draws    *)
(* the function and its arguments; the actions are the steps of the        *)
(* function's body.  Floating-point values are modelled by exact           *)
(* rationals <<num, den>> in lowest terms with den > 0.  Polynomials are   *)
(* coefficient sequences, highest degree first, as numpy.poly1d keeps      *)
(* them.                                                                   *)
(***************************************************************************)
EXTENDS Integers, Sequences, FiniteSets

\* ------------------------------------------------------------------------
\* Bounds of the model
\* ------------------------------------------------------------------------
MaxK == 3

MaxP == 5

MaxDeg == 2

CoefMax == 2

GridMax == 3

MaxN == 3

MaxPad == 1

\* ------------------------------------------------------------------------
\* Exact rational arithmetic standing in for Python float arithmetic.  The
\* operations are functions, so that an argument is evaluated once.
\* ------------------------------------------------------------------------
\* rationals <<num, den>> and complex numbers <<re, im>>
Q == Int \X Int

C == Q \X Q

Abs[x \in Int] == IF x < 0 THEN -x ELSE x

GCD[a \in Int, b \in Int] == IF b = 0 THEN a ELSE GCD[b, a % b]

Rat[a \in Int, b \in Int] ==
    LET g == GCD[Abs[a], Abs[b]]
        s == IF b < 0 THEN -1 ELSE 1
    IN  <<(s * a) \div g, (s * b) \div g>>

RInt[a \in Int] == <<a, 1>>

\* whole numbers are added and multiplied as such
RAdd[x \in Q, y \in Q] ==
    IF x[2] = 1 /\ y[2] = 1 THEN <<x[1] + y[1], 1>>
    ELSE Rat[x[1] * y[2] + y[1] * x[2], x[2] * y[2]]

RNeg[x \in Q] == <<-x[1], x[2]>>

RSub[x \in Q, y \in Q] == RAdd[x, RNeg[y]]

RMul[x \in Q, y \in Q] ==
    LET g1 == GCD[Abs[x[1]], y[2]]
        g2 == GCD[Abs[y[1]], x[2]]
    IN  IF x[1] = 0 \/ y[1] = 0 THEN <<0, 1>>
        ELSE IF x[2] = 1 /\ y[2] = 1 THEN <<x[1] * y[1], 1>>
        ELSE <<(x[1] \div g1) * (y[1] \div g2), (x[2] \div g2) * (y[2] \div g1)>>

RInv[x \in Q] == IF x[1] < 0 THEN <<-x[2], -x[1]>> ELSE <<x[2], x[1]>>

RDiv[x \in Q, y \in Q] == RMul[x, RInv[y]]

RLe[x \in Q, y \in Q] == x[1] * y[2] <= y[1] * x[2]

RLt[x \in Q, y \in Q] == x[1] * y[2] < y[1] * x[2]

RAbs[x \in Q] == <<Abs[x[1]], x[2]>>

\* ------------------------------------------------------------------------
\* numpy.poly1d
\* ------------------------------------------------------------------------
Reverse(s) == [i \in 1..Len(s) |-> s[Len(s) + 1 - i]]

RECURSIVE TrimLeadingZeros(_)
TrimLeadingZeros(c) ==
    IF Len(c) = 0 THEN c
    ELSE IF c[1] = <<0, 1>> THEN TrimLeadingZeros(Tail(c))
    ELSE c

\* poly1d(c): leading zero coefficients are dropped; the zero polynomial
\* keeps one coefficient.
poly1d(c) ==
    LET t == TrimLeadingZeros(c)
    IN  IF Len(t) = 0 THEN <<RInt[0]>> ELSE t

\* poly.order
Order(poly) == Len(poly) - 1

\* poly[i]: the coefficient of z^i, 0 beyond the degree
Coef(poly, i) == IF i \in 0..Order(poly) THEN poly[Len(poly) - i] ELSE RInt[0]

\* ------------------------------------------------------------------------
\* pade_exp and taylor
\* ------------------------------------------------------------------------
RECURSIVE factorial(_)
factorial(i) == IF i <= 0 THEN 1 ELSE i * factorial(i - 1)

\* a numerator recurrence that divides by one too much
NewPcoeff_offByOne(c, kk, jj, nn) ==
    RDiv[RDiv[RMul[c, RInt[kk - nn + 1]], RInt[jj + kk - nn + 2]], RInt[nn]]

\* newcoeff of the numerator loop
NewPcoeff(c, kk, jj, nn) ==
    RDiv[RDiv[RMul[c, RInt[kk - nn + 1]], RInt[jj + kk - nn + 1]], RInt[nn]]

\* a denominator recurrence without the change of sign
NewQcoeff_noSign(c, kk, jj, nn) ==
    RDiv[RDiv[RMul[c, RInt[jj - nn + 1]], RInt[jj + kk - nn + 1]], RInt[nn]]

\* newcoeff of the denominator loop
NewQcoeff(c, kk, jj, nn) ==
    RDiv[RDiv[RMul[RMul[RInt[-1], c], RInt[jj - nn + 1]], RInt[jj + kk - nn + 1]], RInt[nn]]

\* coeffs = 1./factorial(np.arange(p+1)), then poly1d(coeffs[::-1])
TaylorCoeffs(pp) == [i \in 1..(pp + 1) |-> RDiv[RInt[1], RInt[factorial(i - 1)]]]

\* a Taylor polynomial whose coefficients are not reversed
Taylor_notReversed(pp) == poly1d(TaylorCoeffs(pp))

Taylor(pp) == poly1d(Reverse(TaylorCoeffs(pp)))

\* ------------------------------------------------------------------------
\* Complex arithmetic and the rational-function evaluator
\* ------------------------------------------------------------------------
Cx(a, b) == <<RInt[a], RInt[b]>>

CAdd[u \in C, v \in C] == <<RAdd[u[1], v[1]], RAdd[u[2], v[2]]>>

CMul[u \in C, v \in C] ==
    <<RSub[RMul[u[1], v[1]], RMul[u[2], v[2]]],
      RAdd[RMul[u[1], v[2]], RMul[u[2], v[1]]]>>

\* Z*scalefac: a complex value times a real factor
CScale[u \in C, s \in Q] == <<RMul[u[1], s], RMul[u[2], s]>>

\* poly(z): Horner's rule as numpy.polyval runs it
Horner[poly \in Seq(Q), z \in C, i \in Nat, acc \in C] ==
    IF i > Len(poly) THEN acc
    ELSE Horner[poly, z, i + 1, CAdd[CMul[acc, z], <<poly[i], RInt[0]>>]]

polyval[poly \in Seq(Q), z \in C] == Horner[poly, z, 1, Cx(0, 0)]

NormSq[u \in C] == RAdd[RMul[u[1], u[1]], RMul[u[2], u[2]]]

\* The square of np.abs(pz/qz).  A zero denominator gives inf or nan in
\* numpy, written <<1, 0>> here; neither passes a comparison with 1.
AbsRatioSq[pz \in C, qz \in C] ==
    IF NormSq[qz] = <<0, 1>> THEN <<1, 0>>
    ELSE RDiv[NormSq[pz], NormSq[qz]]

\* np.abs(w) <= 1.0, decided on the squared magnitude
LeOne[r2 \in Q] == r2[2] # 0 /\ RLe[r2, RInt[1]]

\* a predicate with a strict comparison
stable_strict(pp, qq, z) ==
    LET r2 == AbsRatioSq[polyval[pp, z], polyval[qq, z]]
    IN  r2[2] # 0 /\ RLt[r2, RInt[1]]

\* stable = lambda z : np.abs(p(z)/q(z))<=1.0
stable(pp, qq, z) == LeOne[AbsRatioSq[polyval[pp, z], polyval[qq, z]]]

\* The field of the renderer at the point z: R=np.abs(p(Z*scalefac)/q(Z*scalefac)),
\* thresholded at the contour level 1
RStable(pp, qq, sf, z) ==
    LeOne[AbsRatioSq[polyval[pp, CScale[z, sf]], polyval[qq, CScale[z, sf]]]]

\* np.linspace(a, b, num)
linspace(a, b, num) ==
    IF num = 1 THEN <<RInt[a]>>
    ELSE [i \in 1..num |-> RAdd[RInt[a], Rat[(i - 1) * (b - a), num - 1]]]

\* ------------------------------------------------------------------------
\* The bound finder (utils.find_plot_bounds), from its contract
\* ------------------------------------------------------------------------
\* The points of the complex plane the finder looks at
Lattice == {Cx(a, b) : a \in -GridMax..GridMax, b \in -GridMax..GridMax}

Inside(z, r) ==
    /\ RLe[RInt[r[1]], z[1]] /\ RLe[z[1], RInt[r[2]]]
    /\ RLe[RInt[r[3]], z[2]] /\ RLe[z[2], RInt[r[4]]]

MaxOf[S \in SUBSET Int] == CHOOSE a \in S : \A b \in S : b <= a

\* The smallest rectangle (xmin, xmax, ymin, ymax) = (-a, b, -c, c) around the
\* origin that holds every point of S; the points of S are lattice points
Enclosure(S) ==
    LET a == MaxOf[{0} \cup {-z[1][1] : z \in S}]
        b == MaxOf[{0} \cup {z[1][1] : z \in S}]
        c == MaxOf[{0} \cup {Abs[z[2][1]] : z \in S}]
    IN  <<-a, b, -c, c>>

\* The rectangle r with a margin of d on every side
Grow(r, d) == <<r[1] - d, r[2] + d, r[3] - d, r[4] + d>>

\* A rectangle outside of which the predicate f is false: the smallest one
\* around the origin, with a margin of 0..MaxPad.  The predicate is handed
\* over as its values on the lattice.
find_plot_bounds(f, guess) ==
    UNION {{Grow(Enclosure(S), d) : d \in 0..MaxPad} :
              S \in {{z \in DOMAIN f : f[z]}}}

\* ------------------------------------------------------------------------
\* Inputs of plot_stability_region
\* ------------------------------------------------------------------------
\* leading coefficients: not zero
Leads == {-1} \cup 1..CoefMax

LowCoefs == {0, 1}

PolysOfDeg(d) ==
    {<<RInt[lead]>> \o [i \in 1..d |-> RInt[low[i]]] :
        lead \in Leads, low \in [1..d -> LowCoefs]}

Polys == UNION {PolysOfDeg(d) : d \in 0..MaxDeg}

\* denominators of stability functions: q(0) = 1
DenPolys == {qq \in Polys : Coef(qq, 0) = RInt[1]}

ScaleFacs == {Rat[1, 2], RInt[1], RInt[2]}

\* ------------------------------------------------------------------------
\* State
\* ------------------------------------------------------------------------
VARIABLES
    op,         \* the function called
    pc,         \* the position in its body
    k, j,       \* pade_exp: the arguments
    n,          \* pade_exp: the loop counter; plot_stability_region: q.order
    Pcoeffs,    \* pade_exp: numerator coefficients, highest degree first
    Qcoeffs,    \* pade_exp: denominator coefficients, highest degree first
    p,          \* taylor: the order; plot_stability_region: the numerator
    q,          \* plot_stability_region: the denominator
    N,          \* gridpoints in each direction
    scalefac,
    plotroots,
    filled,
    m,          \* p.order
    bounds,     \* (xmin, xmax, ymin, ymax)
    calls,      \* the calls of find_plot_bounds: <<guess, result>>
    out,        \* the lines printed
    x, y,       \* the coordinates of the grid
    drawn,      \* the calls made on the plotting library
    ret         \* the value returned

vars == <<op, pc, k, j, n, Pcoeffs, Qcoeffs, p, q, N, scalefac, plotroots,
          filled, m, bounds, calls, out, x, y, drawn, ret>>

plotVars == <<q, N, scalefac, plotroots, filled, m, bounds, calls, out, x, y, drawn>>

NoPade == k = 0 /\ j = 0 /\ Pcoeffs = <<>> /\ Qcoeffs = <<>>

NoPlot ==
    /\ q = <<>> /\ N = 0 /\ scalefac = RInt[1] /\ plotroots = FALSE
    /\ filled = TRUE /\ m = 0 /\ bounds = <<>> /\ calls = <<>>
    /\ out = <<>> /\ x = <<>> /\ y = <<>> /\ drawn = <<>>

InitPade ==
    /\ op = "pade_exp" /\ pc = "P_loop"
    /\ k \in 0..MaxK /\ j \in 0..MaxK
    /\ n = 1
    /\ Pcoeffs = <<RInt[1]>> /\ Qcoeffs = <<RInt[1]>>
    /\ p = 0 /\ NoPlot /\ ret = <<>>

InitTaylor ==
    /\ op = "taylor" /\ pc = "taylor"
    /\ p \in 0..MaxP
    /\ n = 0 /\ NoPade /\ NoPlot /\ ret = <<>>

InitPlot ==
    /\ op = "plot_stability_region" /\ pc = "classify"
    /\ p \in Polys /\ q \in DenPolys
    /\ N = 0 /\ scalefac = RInt[1] /\ plotroots = FALSE /\ filled = TRUE
    /\ m = 0 /\ n = 0 /\ bounds = <<>> /\ calls = <<>> /\ out = <<>>
    /\ x = <<>> /\ y = <<>> /\ drawn = <<>>
    /\ NoPade /\ ret = <<>>

Init == InitPade \/ InitTaylor \/ InitPlot

\* ------------------------------------------------------------------------
\* pade_exp(k, j)
\* ------------------------------------------------------------------------
\* for n in range(1,k+1): one pass of the numerator loop
PadeNumStep ==
    /\ op = "pade_exp" /\ pc = "P_loop" /\ n <= k
    /\ Pcoeffs' = <<NewPcoeff(Pcoeffs[1], k, j, n)>> \o Pcoeffs
    /\ n' = n + 1
    /\ UNCHANGED <<op, pc, k, j, Qcoeffs, p, plotVars, ret>>

\* the numerator loop ends: P=pl.poly1d(Pcoeffs)
PadeNumDone ==
    /\ op = "pade_exp" /\ pc = "P_loop" /\ n > k
    /\ Pcoeffs' = poly1d(Pcoeffs)
    /\ n' = 1
    /\ pc' = "Q_loop"
    /\ UNCHANGED <<op, k, j, Qcoeffs, p, plotVars, ret>>

\* for n in range(1,j+1): one pass of the denominator loop
PadeDenStep ==
    /\ op = "pade_exp" /\ pc = "Q_loop" /\ n <= j
    /\ Qcoeffs' = <<NewQcoeff(Qcoeffs[1], k, j, n)>> \o Qcoeffs
    /\ n' = n + 1
    /\ UNCHANGED <<op, pc, k, j, Pcoeffs, p, plotVars, ret>>

\* the denominator loop ends: Q=pl.poly1d(Qcoeffs); return P,Q
PadeReturn ==
    /\ op = "pade_exp" /\ pc = "Q_loop" /\ n > j
    /\ Qcoeffs' = poly1d(Qcoeffs)
    /\ ret' = <<Pcoeffs, poly1d(Qcoeffs)>>
    /\ pc' = "done"
    /\ UNCHANGED <<op, k, j, n, Pcoeffs, p, plotVars>>

\* ------------------------------------------------------------------------
\* taylor(p)
\* ------------------------------------------------------------------------
TaylorCall ==
    /\ op = "taylor" /\ pc = "taylor"
    /\ ret' = Taylor(p)
    /\ pc' = "done"
    /\ UNCHANGED <<op, k, j, n, Pcoeffs, Qcoeffs, p, plotVars>>

\* ------------------------------------------------------------------------
\* plot_stability_region(p, q, N, color, filled, plotroots, alpha, scalefac, fignum)
\* p and q arrive with numeric coefficients, so the conversion of object
\* coefficients to floats is not entered.  The arguments N and scalefac get
\* their values where the body first reads them (the grid), filled and
\* plotroots likewise (the plot); until then the variables hold the defaults
\* of Init and nothing reads them.
\* ------------------------------------------------------------------------
MsgUnbounded == "The stability region is unbounded"

MsgNoStable == "No stable region found; is this method zero-stable?"

MsgMaybe == "The stability region may be unbounded"

Guess == <<-10, 1, -5, 5>>

\* a test that takes equal leading coefficients for an unbounded region
Unbounded_orEqual(pp, qq) ==
    LET mm == Order(pp)
        nn == Order(qq)
    IN  \/ mm < nn
        \/ (mm = nn /\ RLe[RAbs[Coef(pp, mm)], RAbs[Coef(qq, nn)]])

\* if (m < n) or ((m == n) and (abs(p[m])<abs(q[n]))):
Unbounded(pp, qq) ==
    LET mm == Order(pp)
        nn == Order(qq)
    IN  \/ mm < nn
        \/ (mm = nn /\ RLt[RAbs[Coef(pp, mm)], RAbs[Coef(qq, nn)]])

\* bounds = (-10*m,m,-5*m,5*m)
FallbackBounds(mm) == <<-10 * mm, mm, -5 * mm, 5 * mm>>

\* x < 1.e-14 for a magnitude x on the integer lattice of the bounds
BelowEps(a) == a = 0

MinOf[S \in SUBSET Int] == CHOOSE a \in S : \A b \in S : a <= b

\* if np.min(np.abs(np.array(bounds)))<1.e-14:
NoStableRegion(b) == BelowEps(MinOf[{Abs[b[i]] : i \in 1..4}])

\* if (m == n) and (abs(p[m])==abs(q[n])):
EqualLeading(pp, qq) ==
    /\ Order(pp) = Order(qq)
    /\ RAbs[Coef(pp, Order(pp))] = RAbs[Coef(qq, Order(qq))]

\* if len(q)>1: the length of a poly1d is its order
PolesPlotted(qq) == Order(qq) > 1

\* the branch of an unbounded region
UnboundedBranch ==
    /\ op = "plot_stability_region" /\ pc = "classify"
    /\ Unbounded(p, q)
    /\ m' = Order(p) /\ n' = Order(q)
    /\ out' = Append(out, MsgUnbounded)
    /\ bounds' = FallbackBounds(Order(p))
    /\ pc' = "maybe"
    /\ UNCHANGED <<op, k, j, Pcoeffs, Qcoeffs, p, q, N, scalefac, plotroots,
                   filled, calls, x, y, drawn, ret>>

\* the branch of the bound search
BoundedBranch ==
    /\ op = "plot_stability_region" /\ pc = "classify"
    /\ ~Unbounded(p, q)
    /\ m' = Order(p) /\ n' = Order(q)
    /\ \E r \in find_plot_bounds([z \in Lattice |-> stable(p, q, z)], Guess) :
          /\ calls' = Append(calls, <<Guess, r>>)
          /\ bounds' = r
          /\ out' = IF NoStableRegion(r) THEN Append(out, MsgNoStable) ELSE out
    /\ pc' = "maybe"
    /\ UNCHANGED <<op, k, j, Pcoeffs, Qcoeffs, p, q, N, scalefac, plotroots,
                   filled, x, y, drawn, ret>>

\* a notice of equal leading coefficients that is raised, not printed
MayBeUnbounded_raises ==
    /\ op = "plot_stability_region" /\ pc = "maybe"
    /\ out' = IF EqualLeading(p, q) THEN Append(out, MsgMaybe) ELSE out
    /\ pc' = IF EqualLeading(p, q) THEN "raised" ELSE "grid"
    /\ UNCHANGED <<op, k, j, n, Pcoeffs, Qcoeffs, p, q, N, scalefac, plotroots,
                   filled, m, bounds, calls, x, y, drawn, ret>>

\* the notice of equal leading coefficients
MayBeUnbounded ==
    /\ op = "plot_stability_region" /\ pc = "maybe"
    /\ out' = IF EqualLeading(p, q) THEN Append(out, MsgMaybe) ELSE out
    /\ pc' = "grid"
    /\ UNCHANGED <<op, k, j, n, Pcoeffs, Qcoeffs, p, q, N, scalefac, plotroots,
                   filled, m, bounds, calls, x, y, drawn, ret>>

\* Evaluate the stability function over a grid.  X, Y and Z are the tilings of
\* x and y; the field R is RStable at the points of Z.
EvaluateGrid ==
    /\ op = "plot_stability_region" /\ pc = "grid"
    /\ N' \in 2..MaxN
    /\ scalefac' \in ScaleFacs
    /\ x' = linspace(bounds[1], bounds[2], N')
    /\ y' = linspace(bounds[3], bounds[4], N')
    /\ pc' = "plot"
    /\ UNCHANGED <<op, k, j, n, Pcoeffs, Qcoeffs, p, q, plotroots,
                   filled, m, bounds, calls, out, drawn, ret>>

\* Plot, and return the figure
Render ==
    /\ op = "plot_stability_region" /\ pc = "plot"
    /\ filled' \in BOOLEAN
    /\ plotroots' \in BOOLEAN
    /\ drawn' = <<IF filled' THEN "contourf" ELSE "contour">>
                \o (IF plotroots' THEN <<"roots">> ELSE <<>>)
                \o (IF PolesPlotted(q) THEN <<"poles">> ELSE <<>>)
                \o <<"imag_axis", "real_axis">>
    /\ ret' = "h"
    /\ pc' = "done"
    /\ UNCHANGED <<op, k, j, n, Pcoeffs, Qcoeffs, p, q, N, scalefac,
                   m, bounds, calls, out, x, y>>

Next ==
    \/ PadeNumStep
    \/ PadeNumDone
    \/ PadeDenStep
    \/ PadeReturn
    \/ TaylorCall
    \/ UnboundedBranch
    \/ BoundedBranch
    \/ MayBeUnbounded
    \/ EvaluateGrid
    \/ Render

Spec == Init /\ [][Next]_vars

\* The interpreter runs a call to its end: no step that can be taken is
\* put off for ever.
FairSpec == Spec /\ WF_vars(Next)

\* ------------------------------------------------------------------------
\* Properties
\* ------------------------------------------------------------------------
IsPlot == op = "plot_stability_region"

PadeDone == op = "pade_exp" /\ pc = "done"

TaylorDone == op = "taylor" /\ pc = "done"

\* sum over i in 0..r of Qcoef[i]/(r-i)!
RECURSIVE SeriesCoef(_, _, _)
SeriesCoef(Qp, r, i) ==
    IF i > r THEN RInt[0]
    ELSE RAdd[RDiv[Coef(Qp, i), RInt[factorial(r - i)]], SeriesCoef(Qp, r, i + 1)]

\* C1: the pair (P,Q) returned by pade_exp(k,j) meets the Pade order
\* condition: for every r in 0..k+j the coefficient of z^r in Q(z)*exp(z),
\* the sum over i of Qcoef[i]/(r-i)!, equals Pcoef[r] (0 for r > k).
C1_PadeOrderCondition ==
    PadeDone =>
        \A r \in 0..(k + j) :
            SeriesCoef(ret[2], r, 0) = (IF r <= k THEN Coef(ret[1], r) ELSE RInt[0])

C1_Witness == PadeDone /\ k = 2 /\ j = 2 /\ Len(ret[1]) = 3 /\ Len(ret[2]) = 3

\* The leading coefficient of a polynomial, read off its first place
Lead(poly) == poly[1]

IsUnboundedCase ==
    \/ Order(p) < Order(q)
    \/ (Order(p) = Order(q) /\ RLt[RAbs[Lead(p)], RAbs[Lead(q)]])

InSeq(e, s) == \E i \in 1..Len(s) : s[i] = e

\* C2: with m = deg(p) and n = deg(q), the unbounded branch is taken exactly
\* when m < n or (m = n and |lead p| < |lead q|); in it the bound finder is
\* never called and the bounds are (-10m, m, -5m, 5m); in every other case the
\* finder is called once with the guess (-10, 1, -5, 5) and its result is the
\* bounds; the grid is built over these bounds.
C2_BranchSelection ==
    (IsPlot /\ pc # "classify") =>
        /\ InSeq(MsgUnbounded, out) <=> IsUnboundedCase
        /\ IsUnboundedCase =>
              /\ calls = <<>>
              /\ bounds = <<-10 * Order(p), Order(p), -5 * Order(p), 5 * Order(p)>>
        /\ ~IsUnboundedCase =>
              /\ Len(calls) = 1
              /\ calls[1][1] = <<-10, 1, -5, 5>>
              /\ bounds = calls[1][2]
        /\ pc \in {"plot", "done"} =>
              /\ x = linspace(bounds[1], bounds[2], N)
              /\ y = linspace(bounds[3], bounds[4], N)

\* equal degrees, the numerator's leading coefficient the smaller: unbounded
C2_Witness ==
    /\ IsPlot /\ pc = "done"
    /\ Order(p) = 1 /\ Order(q) = 1
    /\ Lead(p) = RInt[1] /\ Lead(q) = RInt[2]
    /\ bounds = <<-10, 1, -5, 5>> /\ calls = <<>>

BE_p == <<RInt[1]>>

BE_q == <<RInt[-1], RInt[1]>>

\* C3 as stated: for p(z)=1 and q(z)=1-z the predicate |p(z)/q(z)| <= 1
\* classifies z=0 as stable and z=3 as unstable.
C3_Original ==
    (IsPlot /\ pc = "done" /\ p = BE_p /\ q = BE_q) =>
        /\ stable(p, q, Cx(0, 0))
        /\ ~stable(p, q, Cx(3, 0))

\* C3 amended: for p(z)=1 and q(z)=1-z the predicate |p(z)/q(z)| <= 1
\* classifies z=0 as stable and z=3 as stable too (|1/(1-3)| = 1/2).
C3_BackwardEuler ==
    (IsPlot /\ pc = "done" /\ p = BE_p /\ q = BE_q) =>
        /\ stable(p, q, Cx(0, 0))
        /\ stable(p, q, Cx(3, 0))

\* the call has run for p=1, q=1-z and its field is stable at its grid points
C3_Witness ==
    /\ IsPlot /\ pc = "done" /\ p = BE_p /\ q = BE_q /\ scalefac = RInt[1]
    /\ \A a \in 1..N : \A b \in 1..N : RStable(p, q, scalefac, <<x[a], y[b]>>)

TookBoundedBranch == IsPlot /\ pc # "classify" /\ calls # <<>>

\* The lattice of twice the extent of the finder's
WideLattice == {Cx(a, b) : a \in -2 * GridMax..2 * GridMax, b \in -2 * GridMax..2 * GridMax}

\* The finder has met its contract: the predicate is false outside the
\* rectangle it returned, on the lattice of twice the extent of its search
ContractMet == \A w \in WideLattice : stable(p, q, w) => Inside(w, bounds)

\* C4: in the bounded branch, the bound finder having met its contract, the
\* bounds include the entire rendered region for every scalefac: every point
\* z at which the field is stable, |p(scalefac*z)/q(scalefac*z)| <= 1, lies
\* inside the rectangle of the grid.  The points z are those with scalefac*z
\* on the lattice the contract was judged on.
C4_BoundsCoverRenderedRegion ==
    (TookBoundedBranch /\ pc \in {"plot", "done"} /\ ContractMet) =>
        \A w \in WideLattice :
            LET z == CScale[w, RInv[scalefac]]
            IN  RStable(p, q, scalefac, z) => Inside(z, bounds)

\* C7: every call of plot_stability_region runs to completion, whichever
\* notices are printed: the grid is built over the bounds, the contour is
\* drawn and the figure is returned.
C7_PlotCompletes ==
    (IsPlot /\ pc = "classify") ~>
        (/\ IsPlot /\ pc = "done" /\ ret = "h"
         /\ x = linspace(bounds[1], bounds[2], N)
         /\ y = linspace(bounds[3], bounds[4], N)
         /\ (InSeq("contourf", drawn) \/ InSeq("contour", drawn)))

\* a call that printed two notices and returned the figure
C7_Witness ==
    /\ IsPlot /\ pc = "done" /\ ret = "h"
    /\ InSeq(MsgNoStable, out) /\ InSeq(MsgMaybe, out)

\* C8: in the bounded branch the notice 'No stable region found' is printed
\* exactly when all four bounds have a magnitude below 1e-14.
C8_NoStableNotice ==
    TookBoundedBranch =>
        (InSeq(MsgNoStable, out) <=> \A i \in 1..4 : BelowEps(Abs[bounds[i]]))

\* C9: the numerator's roots are drawn exactly when plotroots is set; the
\* poles exactly when plotroots is set and the denominator has degree >= 1.
C9_RootsAndPoles ==
    (IsPlot /\ pc = "done") =>
        /\ InSeq("roots", drawn) <=> plotroots
        /\ InSeq("poles", drawn) <=> (plotroots /\ Order(q) >= 1)

\* C10: in the unbounded branch the fallback rectangle of the grid is not
\* degenerate: xmin < xmax and ymin < ymax, and the grid has more than one
\* distinct point.
C10_FallbackNonDegenerate ==
    (IsPlot /\ pc \in {"plot", "done"} /\ InSeq(MsgUnbounded, out)) =>
        /\ bounds[1] < bounds[2]
        /\ bounds[3] < bounds[4]
        /\ \E a \in 1..N : \E b \in 1..N : x[a] # x[b] \/ y[a] # y[b]

C6_TaylorCoefficients ==
    TaylorDone =>
        /\ Len(ret) = p + 1
        /\ \A i \in 0..p : ret[p + 1 - i] = Rat[1, factorial(i)]
        /\ polyval[ret, Cx(0, 0)] = Cx(1, 0)
        /\ (p = 0 => ret = <<RInt[1]>>)

C6_Witness == TaylorDone /\ p = 3 /\ ret[1] = Rat[1, 6]

====
